---- MODULE Spec2Model ----
(***************************************************************************)
(* Model of waveform.py: the capture callback (PortAudio thread), the      *)
(* queue + flag hand-off, the render loop of the main program with its     *)
(* exception handlers and cleanup, and the pure functions the loop calls.  *)
(*                                                                         *)
(* Samples are fixed-point: the integer s stands for the float32 amplitude *)
(* s / SampleScale.  Levels are whole decibels (the floor of the float).   *)
(* Every chunk carries the number of its submission (seq); the code has no *)
(* such field, it is the identity of the array object that .copy() makes.  *)
(***************************************************************************)
EXTENDS Integers, Sequences, FiniteSets, TLC

\* ---------------------------------------------------------------- bounds
\* Number of callbacks the capture device delivers in a run.
MaxSubmits == 3
\* Samples per chunk in the model (the code's CHUNK_SIZE is 1024).
ChunkLen == 2
\* Longest threshold list given to the colour classifier.
MaxThresholds == 4
\* Longest chunk given to the projector.
MaxSamples == 20
\* Longest chunk given to the loudness estimator.
MaxRmsSamples == 4

\* ---------------------------------------------------- program constants
WIDTH == 1000
HEIGHT == 500
\* Fixed-point unit of a float32 sample: s stands for s / SampleScale.
SampleScale == 100
\* -np.inf, the initial last_rms_dbfs: below every level and threshold.
NegInf == -1000000
\* 20 * log10(epsilon) with epsilon = 1e-10: the level of an all-zero chunk.
SilenceDb == -200
\* np.mean of an empty array is nan; every comparison nan < t is false.
NaN == 1000000

COLOR_THRESHOLDS_DB == << -45, -30, -15 >>
COLOR_PALETTE == << "White", "Yellow", "Orange", "Red" >>

\* ------------------------------------------------------- pure functions
Min2(a, b) == IF a < b THEN a ELSE b
Max2(a, b) == IF a > b THEN a ELSE b

RECURSIVE SumSq(_)
SumSq(s) == IF s = << >> THEN 0 ELSE Head(s) * Head(s) + SumSq(Tail(s))

\* 10^(k/10) * 1000 for k = 0..9, the mantissa table of a base-10 logarithm.
Pow10Tenths == << 1000, 1259, 1585, 1995, 2512, 3162, 3981, 5012, 6310, 7943 >>

\* floor(10 * log10(p / q)) for integers p, q > 0.
RECURSIVE FloorDb10(_, _)
FloorDb10(p, q) ==
    IF p < q THEN FloorDb10(10 * p, q) - 10
    ELSE IF p >= 10 * q THEN FloorDb10(p, 10 * q) + 10
    ELSE LET ks == {k \in 0..9 : Pow10Tenths[k + 1] * q <= 1000 * p}
         IN  CHOOSE k \in ks : \A j \in ks : j <= k

\* Mutant of calculate_rms_dbfs: the sum of squares is not divided by the
\* number of samples.
calculate_rms_dbfs_sum(data_chunk) ==
    LET n == Len(data_chunk)
        sumsq == SumSq(data_chunk)
    IN  IF n = 0 THEN NaN
        ELSE IF sumsq = 0 THEN SilenceDb
        ELSE FloorDb10(sumsq, SampleScale * SampleScale)

\* calculate_rms_dbfs: 20 * log10(sqrt(mean(x^2)) + 1e-10), in whole dB.
\* 20 * log10(sqrt(m)) = 10 * log10(m); epsilon only matters when m = 0.
calculate_rms_dbfs(data_chunk) ==
    LET n == Len(data_chunk)
        sumsq == SumSq(data_chunk)
    IN  IF n = 0 THEN NaN
        ELSE IF sumsq = 0 THEN SilenceDb
        ELSE FloorDb10(sumsq, n * SampleScale * SampleScale)

\* Reading a list past its end raises IndexError.
IndexError == -1

\* Mutant of ColorTier: `<=` in place of `<`, a level equal to a threshold
\* falls in the lower tier.
ColorTierInclusive(rms_dbfs, thresholds) ==
    IF Len(thresholds) < 1 THEN IndexError
    ELSE IF rms_dbfs <= thresholds[1] THEN 0
    ELSE IF Len(thresholds) < 2 THEN IndexError
    ELSE IF rms_dbfs <= thresholds[2] THEN 1
    ELSE IF Len(thresholds) < 3 THEN IndexError
    ELSE IF rms_dbfs <= thresholds[3] THEN 2
    ELSE 3

\* The palette index the if-chain of get_waveform_color returns when
\* COLOR_THRESHOLDS_DB is `thresholds`: it reads entries 0, 1 and 2 of the
\* list (1..3 here), whatever its length.
ColorTier(rms_dbfs, thresholds) ==
    IF Len(thresholds) < 1 THEN IndexError
    ELSE IF rms_dbfs < thresholds[1] THEN 0
    ELSE IF Len(thresholds) < 2 THEN IndexError
    ELSE IF rms_dbfs < thresholds[2] THEN 1
    ELSE IF Len(thresholds) < 3 THEN IndexError
    ELSE IF rms_dbfs < thresholds[3] THEN 2
    ELSE 3

get_waveform_color(rms_dbfs) ==
    COLOR_PALETTE[ColorTier(rms_dbfs, COLOR_THRESHOLDS_DB) + 1]

\* One point of the waveform; i is the 0-based sample index, num_samples >= 1.
\* x_scale = width / (n - 1) (width when n = 1); x = int(i * x_scale);
\* y = int(height/2 - clamp(a) * height/2), a = amplitude / SampleScale.
\* x_scale and i * x_scale are IEEE-754 doubles.  When i * width / (n - 1)
\* is not an integer the rounding is far smaller than its fraction and int()
\* is the exact floor; when it is an integer the double product can fall
\* just short of it, and int() is then one less.  FloatProductShort lists
\* the triples << width, n - 1, i >> where it does, for width 1000 and 15
\* and n - 1 <= 64 (the doubles evaluated).
FloatProductShort ==
    { << 1000, 19, 19 >>, << 1000, 38, 19 >>, << 1000, 38, 38 >>,
      << 1000, 61, 61 >>,
      << 15, 11, 11 >>, << 15, 13, 13 >>, << 15, 22, 22 >>, << 15, 26, 26 >>,
      << 15, 44, 44 >>, << 15, 52, 52 >>, << 15, 55, 55 >> }

\* Mutant of WaveformPoint: the amplitude is not clamped.
WaveformPointUnclamped(i, amplitude, num_samples, width, height) ==
    LET exact == IF num_samples > 1 THEN (i * width) \div (num_samples - 1)
                 ELSE i * width
        x == IF << width, num_samples - 1, i >> \in FloatProductShort
             THEN exact - 1 ELSE exact
        y == (height * SampleScale - amplitude * height) \div (2 * SampleScale)
    IN  << x, y >>

WaveformPoint(i, amplitude, num_samples, width, height) ==
    LET clamped == Max2(-SampleScale, Min2(SampleScale, amplitude))
        exact == IF num_samples > 1 THEN (i * width) \div (num_samples - 1)
                 ELSE i * width
        x == IF << width, num_samples - 1, i >> \in FloatProductShort
             THEN exact - 1 ELSE exact
        y == (height * SampleScale - clamped * height) \div (2 * SampleScale)
    IN  << x, y >>

generate_waveform_points(data_chunk, width, height) ==
    LET n == Len(data_chunk)
        points == [k \in 1..n |->
                     WaveformPoint(k - 1, data_chunk[k], n, width, height)]
    IN  IF n = 0 THEN << >>
        ELSE IF n = 1 THEN Append(points, points[1])
        ELSE points

\* ------------------------------------------------------------ test data
\* The chunks the capture device delivers: a quiet chunk (amplitude 0.01)
\* and an over-range chunk (amplitude -1.5), constant over the chunk.
SampleLevels == {1, -(3 * SampleScale) \div 2}
Inputs == {[i \in 1..ChunkLen |-> v] : v \in SampleLevels}

\* Mutant of Zeros: the held chunk starts as an empty array.
ZerosEmpty == << >>

\* np.zeros(CHUNK_SIZE)
Zeros == [i \in 1..ChunkLen |-> 0]

\* ---------------------------------------------------------------- state
VARIABLES
    audio_q,             \* queue.Queue(): FIFO of chunks put by the callback
    latest_data_chunk,   \* the chunk the render loop holds
    last_rms_dbfs,       \* the level the render loop holds
    new_data_available,  \* the flag the callback raises and the loop resets
    running,             \* the loop variable of `while running`
    stream,              \* "None", "open", "active", "failed" or "closed"
    pygame_init,         \* pygame.get_init()
    quit_event,          \* a pygame.QUIT event waits in pygame's event queue
    pc,                  \* position of the main thread
    cb_pc,               \* position of the capture thread in audio_callback
    handler,             \* the except clause that ran: "none", "kbd", "exc"
    exit_code,           \* the exit status the process will end with
    submitted,           \* history: number of chunks put so far
    quiet_submits,       \* history: callbacks run whole since the last consume step
    cb_clean,            \* history: no consume step since the running callback's put
    poll,                \* history: the loop's current (or last) poll of the flag
    polls,               \* history: polls completed since the last callback step
    screen_calls,        \* history: draw-surface calls of the current iteration
    frame,               \* history: what the last drawing step drew
    args,                \* the input of a pure function under check
    result               \* the value the pure function returned

vars == << audio_q, latest_data_chunk, last_rms_dbfs, new_data_available,
           running, stream, pygame_init, quit_event, pc, cb_pc, handler,
           exit_code, submitted, quiet_submits, cb_clean, poll, polls,
           screen_calls, frame, args, result >>

globals == << audio_q, latest_data_chunk, last_rms_dbfs, new_data_available >>
process == << running, stream, pygame_init, quit_event, handler, exit_code >>
drawing == << screen_calls, frame >>
pure == << args, result >>

Chunk(seq, data) == [seq |-> seq, data |-> data]

\* Positions of the main thread inside the try block (lines 126-183).
SetupPcs == {"create", "start"}
ConsumePcs == {"drain", "rms", "reset"}
DrawPcs == {"fill", "lines", "flip"}
LoopPcs == {"while", "events", "poll"} \cup ConsumePcs \cup DrawPcs
TryPcs == SetupPcs \cup LoopPcs
\* Positions at which a call into sounddevice or pygame can raise.
RaisingPcs == {"create", "start", "events", "fill", "lines", "flip"}

\* Number of callbacks that have run to their end.
Completed == IF cb_pc = "flag" THEN submitted - 1 ELSE submitted

NoPoll == [flag |-> FALSE, pending |-> FALSE, held |-> 0, target |-> 0,
           completed |-> 0, idle |-> FALSE, disturbed |-> TRUE]
NoFrame == [seq |-> -1, points |-> << >>, color |-> "none", drawn |-> FALSE]

NoArgs == [fn |-> "none"]
NoResult == [done |-> FALSE]

\* The state of the module once loaded, the main thread at position `at`.
ProgramInit(at) ==
    /\ audio_q = << >>
    /\ latest_data_chunk = Chunk(0, Zeros)
    /\ last_rms_dbfs = NegInf
    /\ new_data_available = FALSE
    /\ running = FALSE
    /\ stream = "None"
    /\ pygame_init = TRUE
    /\ quit_event = FALSE
    /\ pc = at
    /\ cb_pc = "idle"
    /\ handler = "none"
    /\ exit_code = 0
    /\ submitted = 0
    /\ quiet_submits = 0
    /\ cb_clean = FALSE
    /\ poll = NoPoll
    /\ polls = << >>
    /\ screen_calls = << >>
    /\ frame = NoFrame

Init ==
    /\ ProgramInit("create")
    /\ args = NoArgs
    /\ result = NoResult

\* ------------------------------------------------------ capture thread
\* Any step of the callback ends the run of undisturbed polls.
CallbackDisturbs ==
    /\ polls' = << >>
    /\ poll' = [poll EXCEPT !.disturbed = TRUE]

\* Mutant of CallbackPut: audio_q is a queue.Queue(maxsize=1), put() waits
\* for the loop to take the chunk before it.
CallbackPutBounded ==
    /\ cb_pc = "idle"
    /\ stream = "active"
    /\ submitted < MaxSubmits
    /\ Len(audio_q) < 1
    /\ \E indata \in Inputs :
          audio_q' = Append(audio_q, Chunk(submitted + 1, indata))
    /\ submitted' = submitted + 1
    /\ cb_pc' = "flag"
    /\ cb_clean' = TRUE
    /\ CallbackDisturbs
    /\ UNCHANGED << pure, latest_data_chunk, last_rms_dbfs, new_data_available,
                    process, pc, quiet_submits, drawing >>

\* audio_q.put(indata[:, 0].copy()); the status print changes no state.
CallbackPut ==
    /\ cb_pc = "idle"
    /\ stream = "active"
    /\ submitted < MaxSubmits
    /\ \E indata \in Inputs :
          audio_q' = Append(audio_q, Chunk(submitted + 1, indata))
    /\ submitted' = submitted + 1
    /\ cb_pc' = "flag"
    /\ cb_clean' = TRUE
    /\ CallbackDisturbs
    /\ UNCHANGED << pure, latest_data_chunk, last_rms_dbfs, new_data_available,
                    process, pc, quiet_submits, drawing >>

\* new_data_available = True
CallbackFlag ==
    /\ cb_pc = "flag"
    /\ new_data_available' = TRUE
    /\ cb_pc' = "idle"
    /\ quiet_submits' = IF cb_clean THEN quiet_submits + 1 ELSE quiet_submits
    /\ CallbackDisturbs
    /\ UNCHANGED << pure, audio_q, latest_data_chunk, last_rms_dbfs, process, pc,
                    submitted, cb_clean, drawing >>

\* --------------------------------------------------------- main thread
\* History kept by every step of the consume section (lines 151-157).
ConsumeStep ==
    /\ quiet_submits' = 0
    /\ cb_clean' = FALSE

\* The poll that starts now, as the loop reads the flag.
PollStart ==
    [flag |-> new_data_available,
     pending |-> new_data_available /\ audio_q # << >>,
     held |-> latest_data_chunk.seq,
     target |-> IF quiet_submits >= 2 THEN Completed ELSE 0,
     completed |-> Completed,
     idle |-> cb_pc = "idle",
     disturbed |-> FALSE]

\* The last two polls completed with no callback step since the first began.
PollDone(p, chunk, level) ==
    LET all == Append(polls, [pending |-> p.pending, flag |-> p.flag,
                              adopted |-> chunk.seq # p.held,
                              chunk |-> chunk, level |-> level])
    IN  IF p.disturbed THEN polls
        ELSE IF Len(all) > 2 THEN Tail(all) ELSE all

\* stream = sd.InputStream(...)
CreateStream ==
    /\ pc = "create"
    /\ stream' = "open"
    /\ pc' = "start"
    /\ UNCHANGED << pure, globals, running, pygame_init, quit_event, handler,
                    exit_code, cb_pc, submitted, quiet_submits, cb_clean,
                    poll, polls, drawing >>

\* stream.start(); the prints; running = True
StartStream ==
    /\ pc = "start"
    /\ stream' = "active"
    /\ running' = TRUE
    /\ pc' = "while"
    /\ UNCHANGED << pure, globals, pygame_init, quit_event, handler, exit_code,
                    cb_pc, submitted, quiet_submits, cb_clean, poll, polls,
                    drawing >>

\* Mutant of WhileRunning: `while True`, the loop variable is not read.
WhileRunningForever ==
    /\ pc = "while"
    /\ pc' = "events"
    /\ screen_calls' = << >>
    /\ UNCHANGED << pure, globals, process, cb_pc, submitted, quiet_submits,
                    cb_clean, poll, polls, frame >>

\* while running: the next iteration begins, or the loop ends.
WhileRunning ==
    /\ pc = "while"
    /\ pc' = IF running THEN "events" ELSE "finally"
    /\ screen_calls' = IF running THEN << >> ELSE screen_calls
    /\ UNCHANGED << pure, globals, process, cb_pc, submitted, quiet_submits,
                    cb_clean, poll, polls, frame >>

\* for event in pygame.event.get(): if event.type == pygame.QUIT: running = False
HandleEvents ==
    /\ pc = "events"
    /\ running' = IF quit_event THEN FALSE ELSE running
    /\ quit_event' = FALSE
    /\ pc' = "poll"
    /\ UNCHANGED << pure, globals, stream, pygame_init, handler, exit_code, cb_pc,
                    submitted, quiet_submits, cb_clean, poll, polls, drawing >>

\* if new_data_available: (true)
PollNewData ==
    /\ pc = "poll"
    /\ new_data_available
    /\ poll' = PollStart
    /\ pc' = "drain"
    /\ ConsumeStep
    /\ UNCHANGED << pure, globals, process, cb_pc, submitted, polls, drawing >>

\* Mutant of PollNoData: with no new data the loop falls back to its initial,
\* silent state (the frame goes blank).
PollNoDataBlank ==
    /\ pc = "poll"
    /\ ~new_data_available
    /\ latest_data_chunk' = Chunk(0, Zeros)
    /\ last_rms_dbfs' = NegInf
    /\ poll' = PollStart
    /\ polls' = PollDone(PollStart, latest_data_chunk', last_rms_dbfs')
    /\ pc' = "fill"
    /\ ConsumeStep
    /\ UNCHANGED << pure, audio_q, new_data_available, process, cb_pc, submitted,
                    drawing >>

\* if new_data_available: (false) the loop goes on to draw what it holds
PollNoData ==
    /\ pc = "poll"
    /\ ~new_data_available
    /\ poll' = PollStart
    /\ polls' = PollDone(PollStart, latest_data_chunk, last_rms_dbfs)
    /\ pc' = "fill"
    /\ ConsumeStep
    /\ UNCHANGED << pure, globals, process, cb_pc, submitted, drawing >>

\* Mutant of DrainGet: an `if` in place of the `while`, one chunk is taken.
DrainGetOnce ==
    /\ pc = "drain"
    /\ audio_q # << >>
    /\ latest_data_chunk' = Head(audio_q)
    /\ audio_q' = Tail(audio_q)
    /\ pc' = "rms"
    /\ ConsumeStep
    /\ UNCHANGED << pure, last_rms_dbfs, new_data_available, process, cb_pc,
                    submitted, poll, polls, drawing >>

\* Mutant of DrainGet: the queue hands out its newest chunk first (a LifoQueue).
DrainGetLifo ==
    /\ pc = "drain"
    /\ audio_q # << >>
    /\ latest_data_chunk' = audio_q[Len(audio_q)]
    /\ audio_q' = SubSeq(audio_q, 1, Len(audio_q) - 1)
    /\ ConsumeStep
    /\ UNCHANGED << pure, last_rms_dbfs, new_data_available, process, pc, cb_pc,
                    submitted, poll, polls, drawing >>

\* while not audio_q.empty(): latest_data_chunk = audio_q.get_nowait()
DrainGet ==
    /\ pc = "drain"
    /\ audio_q # << >>
    /\ latest_data_chunk' = Head(audio_q)
    /\ audio_q' = Tail(audio_q)
    /\ ConsumeStep
    /\ UNCHANGED << pure, last_rms_dbfs, new_data_available, process, pc, cb_pc,
                    submitted, poll, polls, drawing >>

\* audio_q.empty() is true: the drain loop ends
DrainDone ==
    /\ pc = "drain"
    /\ audio_q = << >>
    /\ pc' = "rms"
    /\ ConsumeStep
    /\ UNCHANGED << pure, globals, process, cb_pc, submitted, poll, polls, drawing >>

\* last_rms_dbfs = calculate_rms_dbfs(latest_data_chunk)
ComputeRms ==
    /\ pc = "rms"
    /\ last_rms_dbfs' = calculate_rms_dbfs(latest_data_chunk.data)
    /\ pc' = "reset"
    /\ ConsumeStep
    /\ UNCHANGED << pure, audio_q, latest_data_chunk, new_data_available, process,
                    cb_pc, submitted, poll, polls, drawing >>

\* Mutant of ResetFlag: the flag is left raised.
ResetFlagForgotten ==
    /\ pc = "reset"
    /\ polls' = PollDone(poll, latest_data_chunk, last_rms_dbfs)
    /\ pc' = "fill"
    /\ ConsumeStep
    /\ UNCHANGED << pure, globals, process, cb_pc, submitted, poll, drawing >>

\* new_data_available = False
ResetFlag ==
    /\ pc = "reset"
    /\ new_data_available' = FALSE
    /\ polls' = PollDone(poll, latest_data_chunk, last_rms_dbfs)
    /\ pc' = "fill"
    /\ ConsumeStep
    /\ UNCHANGED << pure, audio_q, latest_data_chunk, last_rms_dbfs, process, cb_pc,
                    submitted, poll, drawing >>

\* Mutant of Fill: the surface is not cleared.
FillSkipped ==
    /\ pc = "fill"
    /\ pc' = "lines"
    /\ UNCHANGED << pure, globals, process, cb_pc, submitted, quiet_submits,
                    cb_clean, poll, polls, drawing >>

\* screen.fill(BACKGROUND_COLOR)
Fill ==
    /\ pc = "fill"
    /\ screen_calls' = Append(screen_calls, "clear")
    /\ pc' = "lines"
    /\ UNCHANGED << pure, globals, process, cb_pc, submitted, quiet_submits,
                    cb_clean, poll, polls, frame >>

\* waveform_points = generate_waveform_points(...); current_color = ...;
\* if len(waveform_points) >= 2: pygame.draw.lines(...)
DrawLines ==
    /\ pc = "lines"
    /\ LET waveform_points ==
               generate_waveform_points(latest_data_chunk.data, WIDTH, HEIGHT)
           current_color == get_waveform_color(last_rms_dbfs)
           enough == Len(waveform_points) >= 2
       IN  /\ screen_calls' = IF enough THEN Append(screen_calls, "lines")
                              ELSE screen_calls
           /\ frame' = [seq |-> latest_data_chunk.seq,
                        points |-> waveform_points,
                        color |-> current_color,
                        drawn |-> enough]
    /\ pc' = "flip"
    /\ UNCHANGED << pure, globals, process, cb_pc, submitted, quiet_submits,
                    cb_clean, poll, polls >>

\* pygame.display.flip()
Flip ==
    /\ pc = "flip"
    /\ screen_calls' = Append(screen_calls, "present")
    /\ pc' = "while"
    /\ UNCHANGED << pure, globals, process, cb_pc, submitted, quiet_submits,
                    cb_clean, poll, polls, frame >>

\* ------------------------------------------- interrupts and exceptions
\* Ctrl-C is delivered to the main thread somewhere inside the try block.
KeyboardInterrupt ==
    /\ pc \in TryPcs
    /\ pc' = "except_kbd"
    /\ UNCHANGED << pure, globals, process, cb_pc, submitted, quiet_submits,
                    cb_clean, poll, polls, drawing >>

\* sd.InputStream(...), stream.start() or a pygame call raises.  A stream
\* whose start() raised exists (stream is bound) but is not active.
RaiseException ==
    /\ pc \in RaisingPcs
    /\ pc' = "except_exc"
    /\ UNCHANGED << pure, globals, process, cb_pc, submitted, quiet_submits,
                    cb_clean, poll, polls, drawing >>

\* except KeyboardInterrupt: print("Stopping...")
ExceptKeyboardInterrupt ==
    /\ pc = "except_kbd"
    /\ handler' = "kbd"
    /\ pc' = "finally"
    /\ UNCHANGED << pure, globals, running, stream, pygame_init, quit_event,
                    exit_code, cb_pc, submitted, quiet_submits, cb_clean,
                    poll, polls, drawing >>

\* Mutant of ExceptException: the handler does not call sys.exit(1).
ExceptExceptionNoExit ==
    /\ pc = "except_exc"
    /\ handler' = "exc"
    /\ pygame_init' = FALSE
    /\ pc' = "finally"
    /\ UNCHANGED << pure, globals, running, stream, quit_event, exit_code, cb_pc,
                    submitted, quiet_submits, cb_clean, poll, polls, drawing >>

\* except Exception: prints; if pygame.get_init(): pygame.quit(); sys.exit(1)
\* (SystemExit(1) leaves through the finally clause).
ExceptException ==
    /\ pc = "except_exc"
    /\ handler' = "exc"
    /\ pygame_init' = FALSE
    /\ exit_code' = 1
    /\ pc' = "finally"
    /\ UNCHANGED << pure, globals, running, stream, quit_event, cb_pc, submitted,
                    quiet_submits, cb_clean, poll, polls, drawing >>

\* finally: if stream is not None and stream.active: stream.stop(); stream.close()
\* stop() returns once the callback in progress has ended.
FinallyStream ==
    /\ pc = "finally"
    /\ IF stream # "None" /\ stream = "active"
       THEN /\ cb_pc = "idle"
            /\ stream' = "closed"
       ELSE stream' = stream
    /\ pc' = "finally_pygame"
    /\ UNCHANGED << pure, globals, running, pygame_init, quit_event, handler,
                    exit_code, cb_pc, submitted, quiet_submits, cb_clean,
                    poll, polls, drawing >>

\* if pygame.get_init(): pygame.quit(); print("Exiting."); the process ends
FinallyPygame ==
    /\ pc = "finally_pygame"
    /\ pygame_init' = FALSE
    /\ pc' = "exited"
    /\ UNCHANGED << pure, globals, running, stream, quit_event, handler, exit_code,
                    cb_pc, submitted, quiet_submits, cb_clean, poll, polls,
                    drawing >>

\* --------------------------------------------------------- environment
\* The user closes the window: pygame queues a QUIT event.
UserClose ==
    /\ pc \in TryPcs
    /\ ~quit_event
    /\ quit_event' = TRUE
    /\ UNCHANGED << pure, globals, running, stream, pygame_init, handler, exit_code,
                    pc, cb_pc, submitted, quiet_submits, cb_clean, poll,
                    polls, drawing >>

\* The started stream fails (device lost): it is no longer active and
\* delivers no further callback.
StreamFails ==
    /\ pc \in LoopPcs
    /\ stream = "active"
    /\ stream' = "failed"
    /\ UNCHANGED << pure, globals, running, pygame_init, quit_event, handler,
                    exit_code, pc, cb_pc, submitted, quiet_submits, cb_clean,
                    poll, polls, drawing >>

\* ------------------------------------------------------- specification
\* The steps the main thread takes by itself.
MainThread ==
    \/ CreateStream \/ StartStream \/ WhileRunning \/ HandleEvents
    \/ PollNewData \/ PollNoData \/ DrainGet \/ DrainDone \/ ComputeRms
    \/ ResetFlag \/ Fill \/ DrawLines \/ Flip
    \/ ExceptKeyboardInterrupt \/ ExceptException
    \/ FinallyStream \/ FinallyPygame

Next ==
    \/ CallbackPut \/ CallbackFlag
    \/ CreateStream \/ StartStream \/ WhileRunning \/ HandleEvents
    \/ PollNewData \/ PollNoData \/ DrainGet \/ DrainDone \/ ComputeRms
    \/ ResetFlag \/ Fill \/ DrawLines \/ Flip
    \/ KeyboardInterrupt \/ RaiseException
    \/ ExceptKeyboardInterrupt \/ ExceptException
    \/ FinallyStream \/ FinallyPygame
    \/ UserClose \/ StreamFails

Spec == Init /\ [][Next]_vars

\* The main thread is never starved: the interpreter keeps running it.
FairSpec == Spec /\ WF_vars(MainThread)

\* ---------------------------------------------------------------- claims
\* Positions of the loop outside the consume section.
OutsideConsume == {"while", "events", "poll"} \cup DrawPcs

\* C1: when two callbacks A then B have both run whole (put and flag) since
\* the loop's last consume step, the poll that starts next finds the flag
\* raised and ends holding B or a chunk submitted after B, never A; the frame
\* it draws is of that chunk.  (poll.target is B's submission number.)
LastWriteWins ==
    /\ (pc \in DrawPcs /\ poll.target > 0) =>
          /\ poll.flag
          /\ latest_data_chunk.seq >= poll.target
          /\ latest_data_chunk.seq <= submitted
    /\ (pc = "flip" /\ poll.target > 0) => frame.seq >= poll.target

LastWriteWinsWitness ==
    /\ pc = "flip"
    /\ poll.target = 2
    /\ submitted = 2
    /\ frame.seq = 2
    /\ frame.drawn

\* C2: whenever the callback is idle and the loop is outside its consume
\* section, a clear flag implies an empty queue.
FlagClearImpliesEmpty ==
    (cb_pc = "idle" /\ pc \in OutsideConsume /\ ~new_data_available)
        => audio_q = << >>

\* C3: a poll that started when the callback was idle, after the last
\* submit had completed, ends holding that last submitted chunk.
PollAdoptsLastSubmit ==
    (pc \in DrawPcs /\ poll.idle /\ poll.completed > 0
        /\ submitted = poll.completed)
        => latest_data_chunk.seq = poll.completed

\* C4: of two consecutive polls with no callback step between or during
\* them, the first starting with the flag raised and a chunk in the queue:
\* the first adopts a submitted chunk, the second finds the flag clear and
\* changes neither the held chunk nor the held level.
ConsumeIdempotent ==
    (Len(polls) = 2 /\ polls[1].pending) =>
        /\ polls[1].flag
        /\ polls[1].adopted
        /\ polls[1].chunk.seq > 0
        /\ ~polls[2].flag
        /\ ~polls[2].adopted
        /\ polls[2].chunk = polls[1].chunk
        /\ polls[2].level = polls[1].level

ConsumeIdempotentWitness ==
    /\ Len(polls) = 2
    /\ polls[1].pending
    /\ polls[1].chunk.seq = 2
    /\ ~polls[2].flag

\* C5: every change of the held chunk is to a chunk submitted later, and
\* every frame drawn is of a chunk no older than the frame drawn before it.
NoCatchUp ==
    [][/\ latest_data_chunk' # latest_data_chunk
            => latest_data_chunk'.seq > latest_data_chunk.seq
       /\ (frame' # frame /\ frame # NoFrame) => frame'.seq >= frame.seq]_vars

NoCatchUpWitness ==
    /\ frame.seq = 1
    /\ latest_data_chunk.seq = 3
    /\ pc = "lines"

\* C6: a poll that finds the flag clear changes neither the held chunk nor
\* the held level, and the drawing step of that iteration draws the frame
\* (points, colour) the previous drawing step drew.
StickyState ==
    [][/\ (pc = "poll" /\ pc' = "fill")
            => /\ latest_data_chunk' = latest_data_chunk
               /\ last_rms_dbfs' = last_rms_dbfs
       /\ (pc = "lines" /\ pc' = "flip" /\ ~poll.flag /\ frame # NoFrame)
            => /\ frame'.points = frame.points
               /\ frame'.color = frame.color
               /\ frame'.seq = frame.seq
               /\ frame'.drawn]_vars

StickyStateWitness ==
    /\ pc = "flip"
    /\ ~poll.flag
    /\ frame.seq >= 1
    /\ frame.drawn
    /\ frame.color # "White"

\* C7: the draw-surface calls of an iteration are clear, then the polyline
\* if and only if the projection has at least 2 points, then present, each
\* once; every state of an iteration has issued a prefix of that sequence.
ExpectedCalls(chunk) ==
    IF Len(generate_waveform_points(chunk.data, WIDTH, HEIGHT)) >= 2
    THEN << "clear", "lines", "present" >>
    ELSE << "clear", "present" >>

DrawOrder ==
    LET expected == ExpectedCalls(latest_data_chunk)
    IN  /\ pc \in {"events", "poll"} \cup ConsumePcs \cup {"fill"}
            => screen_calls = << >>
        /\ pc = "lines" => screen_calls = << "clear" >>
        /\ pc = "flip"
            => screen_calls = SubSeq(expected, 1, Len(expected) - 1)
        /\ (pc = "while" /\ frame # NoFrame) => screen_calls = expected

DrawOrderWitness ==
    /\ pc = "while"
    /\ screen_calls = << "clear", "lines", "present" >>
    /\ latest_data_chunk.seq > 0

\* C8: when the process ends after the stream object was created, the
\* stream has been stopped and closed and pygame released.
CleanupOnEveryExit ==
    (pc = "exited" /\ stream # "None")
        => (stream = "closed" /\ ~pygame_init)

\* C9: once the started stream has failed, the render loop eventually ends
\* (the claim adds: and the process exits with a non-zero code).
StreamFailureStopsLoop ==
    (stream = "failed") ~> (pc \notin LoopPcs)

\* C10: the process ends with code 0 when the loop was left by a window
\* close (no except clause ran, running is False) or by KeyboardInterrupt,
\* and with a non-zero code when the `except Exception` clause ran.
ExitCode ==
    pc = "exited" =>
        /\ handler = "none" => (exit_code = 0 /\ ~running)
        /\ handler = "kbd" => exit_code = 0
        /\ handler = "exc" => exit_code # 0

ExitCodeWitness ==
    /\ pc = "exited"
    /\ handler = "exc"
    /\ exit_code = 1
    /\ stream = "open"

\* ------------------------------------------- the pure functions alone
\* Levels around the thresholds, silence and -inf.
Levels == {NegInf, SilenceDb, -46, -45, -44, -30, -16, -15, -5, 0, 3}
ThresholdValues == {-45, -30, -15, -5}

\* The ascending threshold lists of length 1..MaxThresholds.
ThresholdLists ==
    UNION {{t \in [1..k -> ThresholdValues] :
                \A j \in 1..(k - 1) : t[j] <= t[j + 1]} : k \in 1..MaxThresholds}

\* Chunks of n samples alternating between a and b; in range, at full scale
\* and beyond it.
Pattern(n, a, b) == [i \in 1..n |-> IF i % 2 = 1 THEN a ELSE b]
PatternPairs ==
    {<< 0, 0 >>, << 1, 1 >>, << SampleScale, SampleScale >>,
     << -SampleScale, -SampleScale >>, << 37, -SampleScale >>,
     << (3 * SampleScale) \div 2, -(3 * SampleScale) \div 2 >>}
PureChunks(max) == {Pattern(n, ab[1], ab[2]) : n \in 0..max, ab \in PatternPairs}

Widths == {WIDTH, 15}
Heights == {HEIGHT, 7}

ColorArgs ==
    {[fn |-> "color", level |-> l, higher |-> h, thresholds |-> t] :
        l \in Levels, h \in Levels, t \in ThresholdLists}
PointArgs ==
    {[fn |-> "points", chunk |-> c, width |-> w, height |-> h] :
        c \in PureChunks(MaxSamples), w \in Widths, h \in Heights}
RmsArgs == {[fn |-> "rms", chunk |-> c] : c \in PureChunks(MaxRmsSamples)}

PureInit ==
    /\ ProgramInit("pure")
    /\ args \in {a \in ColorArgs : a.level <= a.higher} \cup PointArgs \cup RmsArgs
    /\ result = NoResult

Program == << globals, process, pc, cb_pc, submitted, quiet_submits, cb_clean,
              poll, polls, drawing >>

\* get_waveform_color under the configured thresholds, at two levels.
ApplyColor ==
    /\ args.fn = "color"
    /\ ~result.done
    /\ result' = [done |-> TRUE,
                  value |-> << ColorTier(args.level, args.thresholds),
                               ColorTier(args.higher, args.thresholds) >>]
    /\ UNCHANGED << args, Program >>

ApplyPoints ==
    /\ args.fn = "points"
    /\ ~result.done
    /\ result' = [done |-> TRUE,
                  value |-> generate_waveform_points(args.chunk, args.width,
                                                     args.height)]
    /\ UNCHANGED << args, Program >>

ApplyRms ==
    /\ args.fn = "rms"
    /\ ~result.done
    /\ result' = [done |-> TRUE, value |-> calculate_rms_dbfs(args.chunk)]
    /\ UNCHANGED << args, Program >>

PureNext == ApplyColor \/ ApplyPoints \/ ApplyRms

PureSpec == PureInit /\ [][PureNext]_vars

\* Number of thresholds at or below the level.
ThresholdsBelow(level, thresholds) ==
    Cardinality({j \in 1..Len(thresholds) : thresholds[j] <= level})

\* C11 (as claimed): for an ascending threshold list of any length the tier
\* returned is the number of thresholds at or below the level, and a higher
\* level never gets a lower tier.
ColorTierAnyLength ==
    (args.fn = "color" /\ result.done) =>
        /\ result.value[1] = ThresholdsBelow(args.level, args.thresholds)
        /\ result.value[2] = ThresholdsBelow(args.higher, args.thresholds)
        /\ result.value[1] <= result.value[2]

\* C11 (amended): the same for every ascending list of exactly 3 thresholds,
\* the number of entries the code reads.
ColorTierThreeThresholds ==
    (args.fn = "color" /\ result.done /\ Len(args.thresholds) = 3) =>
        /\ result.value[1] = ThresholdsBelow(args.level, args.thresholds)
        /\ result.value[2] = ThresholdsBelow(args.higher, args.thresholds)
        /\ result.value[1] <= result.value[2]

ColorTierWitness ==
    /\ args.fn = "color"
    /\ result.done
    /\ args.thresholds = COLOR_THRESHOLDS_DB
    /\ args.level = -30
    /\ args.higher = 3
    /\ result.value = << 2, 3 >>

\* The shape of a projection, but for the x of its last point: n points in
\* sample order from x = 0, x non-decreasing, every y inside the viewport
\* and not lower on screen for a larger sample; 2 equal points for 1 sample;
\* none for an empty chunk.
ProjectionShape(chunk, width, height, points) ==
    LET n == Len(chunk)
    IN  /\ n = 0 => points = << >>
        /\ n = 1 => (Len(points) = 2 /\ points[1] = points[2])
        /\ n > 1 =>
              /\ Len(points) = n
              /\ points[1][1] = 0
              /\ \A k \in 1..(n - 1) : points[k][1] <= points[k + 1][1]
              /\ \A j, k \in 1..n :
                    chunk[j] <= chunk[k] => points[j][2] >= points[k][2]
        /\ \A k \in 1..Len(points) :
              points[k][2] >= 0 /\ points[k][2] <= height

\* C12 (as claimed): the projection has that shape and, for more than one
\* sample, its last point is at x = W.
ProjectionEndsAtWidth ==
    (args.fn = "points" /\ result.done) =>
        /\ ProjectionShape(args.chunk, args.width, args.height, result.value)
        /\ Len(args.chunk) > 1 =>
              result.value[Len(args.chunk)][1] = args.width

\* C12 (amended): the projection has that shape and, for more than one
\* sample, its last point is at x = W or, where the double product
\* (n - 1) * (W / (n - 1)) falls short of W, at x = W - 1.
ProjectionEndsNearWidth ==
    (args.fn = "points" /\ result.done) =>
        /\ ProjectionShape(args.chunk, args.width, args.height, result.value)
        /\ Len(args.chunk) > 1 =>
              result.value[Len(args.chunk)][1] \in {args.width - 1, args.width}

ProjectionWitness ==
    /\ args.fn = "points"
    /\ result.done
    /\ args.width = WIDTH
    /\ args.height = HEIGHT
    /\ Len(args.chunk) = 20
    /\ args.chunk[1] > SampleScale
    /\ result.value[1] = << 0, 0 >>
    /\ result.value[20] = << WIDTH - 1, HEIGHT >>

\* Every sample of the chunk lies in [-1, 1].
InRange(chunk) ==
    \A k \in 1..Len(chunk) : chunk[k] >= -SampleScale /\ chunk[k] <= SampleScale

\* The level is a number: neither -inf nor nan.
Finite(level) == level > NegInf /\ level < NaN

\* C13 (as claimed): for every non-empty chunk, in range or not, the level
\* is at most 20 * log10(1 + epsilon), which is 0 in whole dB; an all-zero
\* chunk gives a finite level below every threshold.
RmsAtMostFullScale ==
    (args.fn = "rms" /\ result.done /\ Len(args.chunk) >= 1) =>
        /\ result.value <= 0
        /\ Finite(result.value)
        /\ SumSq(args.chunk) = 0 => result.value = SilenceDb

\* C13 (amended): the bound holds for the non-empty chunks whose samples all
\* lie in [-1, 1]; every non-empty chunk gives a finite level, an all-zero
\* chunk the level 20 * log10(epsilon).
RmsAtMostFullScaleInRange ==
    (args.fn = "rms" /\ result.done /\ Len(args.chunk) >= 1) =>
        /\ InRange(args.chunk) => result.value <= 0
        /\ Finite(result.value)
        /\ SumSq(args.chunk) = 0 => result.value = SilenceDb

RmsWitness ==
    /\ args.fn = "rms"
    /\ result.done
    /\ Len(args.chunk) = MaxRmsSamples
    /\ \A k \in 1..Len(args.chunk) : args.chunk[k] = SampleScale
    /\ result.value = 0

\* C14: a callback the device delivers can take each of its steps at once,
\* whatever the position of the render loop and however many chunks wait;
\* and the loop's poll and drain can always take their next step, whatever
\* the position of the callback.
NeverWaits ==
    /\ (cb_pc = "idle" /\ stream = "active" /\ submitted < MaxSubmits)
          => ENABLED CallbackPut
    /\ cb_pc = "flag" => ENABLED CallbackFlag
    /\ pc = "poll" => ENABLED (PollNewData \/ PollNoData)
    /\ pc = "drain" => ENABLED (DrainGet \/ DrainDone)
    /\ pc = "rms" => ENABLED ComputeRms
    /\ pc = "reset" => ENABLED ResetFlag

NeverWaitsWitness ==
    /\ cb_pc = "idle"
    /\ stream = "active"
    /\ submitted < MaxSubmits
    /\ Len(audio_q) >= 2
    /\ pc = "drain"

\* C15: at every drawing step the held level is the loudness of the held
\* chunk, the one projected and drawn in that frame.
LevelMatchesBuffer ==
    pc = "lines" => last_rms_dbfs = calculate_rms_dbfs(latest_data_chunk.data)

\* C16: a poll that found the flag raised started with a chunk in the queue
\* and ends holding a chunk newer than the one held before it.
FlaggedPollAdoptsNewer ==
    /\ (pc \in ConsumePcs \cup DrawPcs /\ poll.flag) => poll.pending
    /\ (pc \in DrawPcs /\ poll.flag) => latest_data_chunk.seq > poll.held

\* C17: the held chunk is never empty: it is the initial zero-filled chunk
\* or a chunk the callback submitted; the estimator is never given an empty
\* chunk; every frame drawn is a polyline of at least 2 points, and before
\* any chunk is adopted a flat white line at y = HEIGHT / 2.
HeldBufferNeverEmpty ==
    /\ Len(latest_data_chunk.data) >= 1
    /\ Len(latest_data_chunk.data) = ChunkLen
    /\ latest_data_chunk.seq = 0 => latest_data_chunk.data = Zeros
    /\ latest_data_chunk.seq > 0 =>
          /\ latest_data_chunk.seq <= submitted
          /\ latest_data_chunk.data \in Inputs
    /\ frame.seq >= 0 =>
          /\ frame.drawn
          /\ Len(frame.points) >= 2
    /\ frame.seq = 0 =>
          /\ frame.color = "White"
          /\ \A k \in 1..Len(frame.points) : frame.points[k][2] = HEIGHT \div 2

HeldBufferWitness ==
    /\ pc = "flip"
    /\ submitted = 0
    /\ frame.seq = 0
    /\ frame.drawn
    /\ frame.points = << << 0, HEIGHT \div 2 >>, << WIDTH, HEIGHT \div 2 >> >>

\* C18: running is cleared only by the event handling at the start of an
\* iteration, on a QUIT event; the iteration that saw the event ends with
\* its frame presented; the loop then begins no further iteration; and once
\* a QUIT event waits, the loop eventually ends.
CooperativeStop ==
    /\ [][(running /\ ~running') => (pc = "events" /\ quit_event)]_vars
    /\ []((pc = "while" /\ ~running) =>
             (screen_calls # << >>
                 /\ screen_calls[Len(screen_calls)] = "present"))
    /\ [][(pc = "while" /\ ~running /\ pc' # pc) => pc' \notin LoopPcs]_vars
    /\ (quit_event /\ pc \in LoopPcs) ~> (pc \notin LoopPcs)

CooperativeStopWitness ==
    /\ pc = "while"
    /\ ~running
    /\ ~quit_event
    /\ screen_calls = << "clear", "lines", "present" >>
====
